---- MODULE Spec2Model ----
(***************************************************************************)
(* A model of the archive backend: the users table and the handlers that   *)
(* read and write it (auth router, admin bootstrap, admin panel), the      *)
(* audit middleware and its classifier, and the asset upload path.         *)
(***************************************************************************)
EXTENDS Integers, Sequences, FiniteSets, TLC

VARIABLES
    users,      \* the users table: a set of rows
    nextId,     \* the table's autoincrement primary key
    issued,     \* the signed tokens the server has handed out
    resp,       \* the outcome of the last operation
    registered, \* <<username, password>> of register requests that passed the existence check
    verified,   \* usernames whose status verify_email has set to active
    inflight,   \* requests that have run their check and not yet their write
    bucket,     \* the object store: the objects of the one bucket
    upload,     \* the last upload_file call: its file and what it returned
    call,       \* one call of _determine_action: its arguments and its result
    audit,      \* the audit_logs table: its rows in insertion order
    mw,         \* the request AuditLogMiddleware.dispatch is working on
    now,        \* the clock (datetime.utcnow), in ticks
    who,        \* the last get_current_user call: its sources and its outcome
    holders,    \* <<token, id>>: the row each login token was issued for
    otp,        \* one User object's OTP fields and the last generate_otp / verify_otp
    tx,         \* one use of the get_db session scope
    obj,        \* one User object and the last call of one of its pure methods
    rq,         \* one request with a body on its way through AuditLogMiddleware.dispatch
    purpose     \* <<token, operation>>: the operation each token was issued by

authVars == <<users, nextId, issued, resp, registered, verified, inflight>>
storeVars == <<bucket, upload>>
auditVars == <<audit, mw>>
sideVars == <<now, who, holders, otp, tx, obj, rq, purpose>>
nonAuthVars == <<bucket, upload, call, auditVars, sideVars>>
nonStoreVars == <<authVars, call, auditVars, sideVars>>
nonCallVars == <<authVars, storeVars, auditVars, sideVars>>
vars == <<users, nextId, issued, resp, registered, verified, inflight, bucket, upload, call,
          audit, mw, now, who, holders, otp, tx, obj, rq, purpose>>

----------------------------------------------------------------------------
(* Bounds of the model. *)

MaxId == 2

(* The values requests are drawn from. *)
Names == {"admin", "alice"}
Emails == {"admin@x.com", "alice@x.com"}
Passwords == {"Secret1!", "wrong"}
ADMIN_EMAIL == "admin@x.com"
ADMIN_PASSWORD == "Secret1!"

----------------------------------------------------------------------------
(* app/models/user.py *)

UserRole == {"viewer", "uploader", "editor", "admin"}

UserStatus == {"active", "inactive", "suspended"}

(* Attribute access on an enum class: a member, or AttributeError. *)
EnumMember(enum, name) == IF name \in enum THEN name ELSE "AttributeError"

(* app/utils/security.py: a salted hash, compared by re-hashing. *)
get_password_hash(password) == <<"bcrypt", password>>

verify_password(plain, hashed) == hashed = <<"bcrypt", plain>>

(* Lifetimes in ticks of a quarter of an hour: the access token's (taken   *)
(* as 30 minutes, settings.ACCESS_TOKEN_EXPIRE_MINUTES), the reset token's *)
(* (timedelta(hours=1)) and the verification token's (timedelta(hours=24)).*)
ACCESS_TOKEN_EXPIRE == 2
RESET_TOKEN_EXPIRE == 4
VERIFY_TOKEN_EXPIRE == 96

(* A payload without an exp claim. *)
NoExp == -1

(* lines 34-52: the payload with exp and type added, signed. *)
create_access_token(sub, expires_delta) ==
    [sub |-> sub, type |-> "access", exp |-> now + expires_delta]

(* Tokens that decode under the server's key but were not made by          *)
(* create_access_token (generate_csrf_token signs a payload with no sub),  *)
(* and a string that does not decode at all.                               *)
NoSubToken == [sub |-> "None", type |-> "csrf", exp |-> NoExp]
GarbageToken == [sub |-> "None", type |-> "garbage", exp |-> NoExp]

(* jwt.decode: the signature is the server's and, when there is an exp     *)
(* claim, the clock is not past it; otherwise JWTError.                    *)
jwt_decodes(token) ==
    /\ token # GarbageToken
    /\ token.exp = NoExp \/ now <= token.exp

----------------------------------------------------------------------------
(* The users table with its two unique constraints. *)

UniqueViolationNoConstraint(rows, row) == FALSE

UniqueViolation(rows, row) ==
    \E r \in rows : r.id # row.id /\ (r.username = row.username \/ r.email = row.email)

NewUser(id, username, email, password, role, status, email_verified) ==
    [id |-> id, username |-> username, email |-> email,
     password_hash |-> get_password_hash(password),
     role |-> role, status |-> status, email_verified |-> email_verified]

ByUsername(rows, username) == {r \in rows : r.username = username}

ById(rows, pk) == {r \in rows : r.id = pk}

HasAdmin(rows) == \E r \in rows : r.role = "admin"

----------------------------------------------------------------------------
(* app/auth/router.py *)

NoToken == [sub |-> "None", type |-> "none", exp |-> NoExp]

ExistingUserUsernameOnly(rows, username, email) ==
    {r \in rows : r.username = username}

(* register, lines 56-61: the rows with this username or this email. *)
ExistingUser(rows, username, email) ==
    {r \in rows : r.username = username \/ r.email = email}

(* register, line 76: status=UserStatus.PENDING. *)
RegisterStatus == EnumMember(UserStatus, "pending")

(* Forget what is remembered about usernames an operator has acted on. *)
Forget(names) ==
    /\ registered' = {reg \in registered : reg[1] \notin names}
    /\ verified' = verified \ names

(* register, lines 67-86: build the row, add, commit, send the mail. *)
RegisterCreate(username, email, password) ==
    LET row == NewUser(nextId, username, email, password, "viewer", RegisterStatus, FALSE)
        base == [op |-> "register", username |-> username, email |-> email,
                 password |-> password]
    IN  /\ registered' = {reg \in registered : reg[1] # username}
                              \cup {<<username, password>>}
        /\ verified' = verified \ {username}
        /\ IF RegisterStatus = "AttributeError"
           THEN /\ resp' = base @@ [status |-> 500, detail |-> "AttributeError"]
                /\ UNCHANGED <<users, nextId, issued>>
           ELSE IF UniqueViolation(users, row)
           THEN /\ resp' = base @@ [status |-> 500, detail |-> "IntegrityError"]
                /\ UNCHANGED <<users, nextId, issued>>
           ELSE /\ users' = users \cup {row}
                /\ nextId' = nextId + 1
                /\ issued' = issued \cup {create_access_token(username, VERIFY_TOKEN_EXPIRE)}
                /\ resp' = base @@ [status |-> 201, detail |-> "created"]

register(username, email, password) ==
    /\ nextId <= MaxId
    /\ IF ExistingUser(users, username, email) # {}
       THEN /\ resp' = [op |-> "register", username |-> username, email |-> email,
                        password |-> password, status |-> 400,
                        detail |-> "Username or email already registered"]
            /\ UNCHANGED <<users, nextId, issued, registered, verified>>
       ELSE RegisterCreate(username, email, password)
    /\ UNCHANGED inflight

(* login_for_access_token, lines 96-101: the first row whose username or   *)
(* email is the form's username field.                                     *)
LoginUser(rows, field) == {r \in rows : r.username = field \/ r.email = field}

login_for_access_tokenStatusFirst(field, password) ==
    LET found == LoginUser(users, field)
        user == CHOOSE r \in found : TRUE
        base == [op |-> "login", username |-> field, password |-> password]
    IN  /\ IF found # {} /\ user.status # "active"
           THEN /\ resp' = base @@ [status |-> 403, detail |-> "Account is not active",
                                    token |-> NoToken, cookie |-> NoToken]
                /\ UNCHANGED issued
           ELSE IF found = {} \/ ~verify_password(password, user.password_hash)
           THEN /\ resp' = base @@ [status |-> 401, detail |-> "Incorrect username or password",
                                    token |-> NoToken, cookie |-> NoToken]
                /\ UNCHANGED issued
           ELSE LET token == create_access_token(user.username, ACCESS_TOKEN_EXPIRE)
                IN  /\ resp' = base @@ [status |-> 200, detail |-> "bearer",
                                        token |-> token, cookie |-> token]
                    /\ issued' = issued \cup {token}
        /\ UNCHANGED <<users, nextId, registered, verified, inflight>>

login_for_access_token(field, password) ==
    LET found == LoginUser(users, field)
        user == CHOOSE r \in found : TRUE
        base == [op |-> "login", username |-> field, password |-> password]
    IN  /\ IF found = {} \/ ~verify_password(password, user.password_hash)
           THEN /\ resp' = base @@ [status |-> 401, detail |-> "Incorrect username or password",
                                    token |-> NoToken, cookie |-> NoToken]
                /\ UNCHANGED issued
           ELSE IF user.status # "active"
           THEN /\ resp' = base @@ [status |-> 403, detail |-> "Account is not active",
                                    token |-> NoToken, cookie |-> NoToken]
                /\ UNCHANGED issued
           ELSE LET token == create_access_token(user.username, ACCESS_TOKEN_EXPIRE)
                IN  /\ resp' = base @@ [status |-> 200, detail |-> "bearer",
                                        token |-> token, cookie |-> token]
                    /\ issued' = issued \cup {token}
        /\ UNCHANGED <<users, nextId, registered, verified, inflight>>

verify_emailInactiveOnly(token) ==
    LET found == ByUsername(users, token.sub)
        user == CHOOSE r \in found : TRUE
        base == [op |-> "verify_email", token |-> token]
    IN  /\ IF ~jwt_decodes(token) \/ token.sub = "None"
           THEN /\ resp' = base @@ [status |-> 400, detail |-> "Invalid token"]
                /\ UNCHANGED <<users, verified>>
           ELSE IF found = {}
           THEN /\ resp' = base @@ [status |-> 404, detail |-> "User not found"]
                /\ UNCHANGED <<users, verified>>
           ELSE IF user.status # "inactive"
           THEN /\ resp' = base @@ [status |-> 200, detail |-> "Email already verified"]
                /\ UNCHANGED <<users, verified>>
           ELSE /\ users' = (users \ {user}) \cup
                        {[user EXCEPT !.status = "active", !.email_verified = TRUE]}
                /\ verified' = verified \cup {user.username}
                /\ resp' = base @@ [status |-> 200, detail |-> "Email verified successfully"]
        /\ UNCHANGED <<nextId, issued, registered, inflight>>

(* router.py 148-181 *)
verify_email(token) ==
    LET found == ByUsername(users, token.sub)
        user == CHOOSE r \in found : TRUE
        base == [op |-> "verify_email", token |-> token]
    IN  /\ IF ~jwt_decodes(token) \/ token.sub = "None"
           THEN /\ resp' = base @@ [status |-> 400, detail |-> "Invalid token"]
                /\ UNCHANGED <<users, verified>>
           ELSE IF found = {}
           THEN /\ resp' = base @@ [status |-> 404, detail |-> "User not found"]
                /\ UNCHANGED <<users, verified>>
           ELSE IF user.status = "active"
           THEN /\ resp' = base @@ [status |-> 200, detail |-> "Email already verified"]
                /\ UNCHANGED <<users, verified>>
           ELSE /\ users' = (users \ {user}) \cup
                        {[user EXCEPT !.status = "active", !.email_verified = TRUE]}
                /\ verified' = verified \cup {user.username}
                /\ resp' = base @@ [status |-> 200, detail |-> "Email verified successfully"]
        /\ UNCHANGED <<nextId, issued, registered, inflight>>

forgot_passwordRevealing(email) ==
    LET found == {r \in users : r.email = email}
        user == CHOOSE r \in found : TRUE
    IN  /\ issued' = IF found # {} THEN issued \cup {create_access_token(user.username, RESET_TOKEN_EXPIRE)}
                     ELSE issued
        /\ resp' = IF found # {}
                   THEN [op |-> "forgot_password", email |-> email, status |-> 200,
                         detail |-> "If your email is registered, you will receive a password reset link"]
                   ELSE [op |-> "forgot_password", email |-> email, status |-> 404,
                         detail |-> "User not found"]
        /\ UNCHANGED <<users, nextId, registered, verified, inflight>>

(* lines 183-201: the mail's outcome (send_password_reset_email returns    *)
(* True or False, utils/email.py 59-74) is not looked at.                  *)
forgot_password(email) ==
    LET found == {r \in users : r.email = email}
        user == CHOOSE r \in found : TRUE
    IN  /\ issued' = IF found # {} THEN issued \cup {create_access_token(user.username, RESET_TOKEN_EXPIRE)}
                     ELSE issued
        /\ resp' = [op |-> "forgot_password", email |-> email, status |-> 200,
                    detail |-> "If your email is registered, you will receive a password reset link"]
        /\ UNCHANGED <<users, nextId, registered, verified, inflight>>

----------------------------------------------------------------------------
(* app/main.py and app/scripts/create_admin.py *)

(* One insert into the users table: the row, or IntegrityError. *)
InsertUser(op, row) ==
    /\ nextId <= MaxId
    /\ Forget({row.username})
    /\ IF UniqueViolation(users, row)
       THEN /\ resp' = [op |-> op, username |-> row.username, email |-> row.email,
                        status |-> 0, detail |-> "IntegrityError"]
            /\ UNCHANGED <<users, nextId>>
       ELSE /\ users' = users \cup {row}
            /\ nextId' = nextId + 1
            /\ resp' = [op |-> op, username |-> row.username, email |-> row.email,
                        status |-> 0, detail |-> "created"]

InitialAdminRow == NewUser(nextId, "admin", ADMIN_EMAIL, ADMIN_PASSWORD, "admin", "active", TRUE)

create_initial_admin ==
    /\ IF Cardinality(users) = 0
       THEN InsertUser("create_initial_admin", InitialAdminRow)
       ELSE /\ resp' = [op |-> "create_initial_admin", username |-> "admin",
                        email |-> ADMIN_EMAIL, status |-> 0, detail |-> "skipped"]
            /\ UNCHANGED <<users, nextId, registered, verified>>
    /\ UNCHANGED <<issued, inflight>>

create_admin_user(username, email, password) ==
    /\ InsertUser("create_admin_user",
                  NewUser(nextId, username, email, password, "admin", "active", TRUE))
    /\ UNCHANGED <<issued, inflight>>

----------------------------------------------------------------------------
(* app/admin/user.py *)

(* The roles and statuses the edit form is submitted with: one of each      *)
(* kind the handlers tell apart.                                           *)
FormRoles == {"viewer", "admin"}
FormStatuses == {"active", "suspended"}

(* The edit form (form_columns): the submitted fields are written to the   *)
(* row and committed; the unique constraints apply to the update.          *)
update_model(pk, username, email, role, status) ==
    LET found == ById(users, pk)
        user == CHOOSE r \in found : TRUE
        row == [user EXCEPT !.username = username, !.email = email,
                            !.role = role, !.status = status]
        base == [op |-> "update_model", pk |-> pk]
    IN  /\ found # {}
        /\ Forget({user.username, username})
        /\ IF UniqueViolation(users, row)
           THEN /\ resp' = base @@ [status |-> 0, detail |-> "IntegrityError"]
                /\ UNCHANGED users
           ELSE /\ users' = (users \ {user}) \cup {row}
                /\ resp' = base @@ [status |-> 0, detail |-> "updated"]
        /\ UNCHANGED <<nextId, issued, inflight>>

OtherAdminsCountingTarget(rows, user) == {r \in rows : r.role = "admin"}

(* delete_model, lines 98-100. *)
OtherAdmins(rows, user) == {r \in rows : r.role = "admin" /\ r.id # user.id}

delete_model(pk) ==
    LET found == ById(users, pk)
        user == CHOOSE r \in found : TRUE
        base == [op |-> "delete_model", pk |-> pk]
    IN  /\ IF found = {}
           THEN /\ resp' = base @@ [status |-> 0, detail |-> "AttributeError"]
                /\ UNCHANGED <<users, registered, verified>>
           ELSE IF user.role = "admin" /\ OtherAdmins(users, user) = {}
           THEN /\ resp' = base @@ [status |-> 0, detail |-> "Cannot delete the last admin user"]
                /\ UNCHANGED <<users, registered, verified>>
           ELSE /\ users' = users \ {user}
                /\ Forget({user.username})
                /\ resp' = base @@ [status |-> 0, detail |-> "deleted"]
        /\ UNCHANGED <<nextId, issued, inflight>>

----------------------------------------------------------------------------
(* The handlers run one at a time. *)

AuthInit ==
    /\ users = {}
    /\ nextId = 1
    /\ issued = {}
    /\ resp = [op |-> "none", status |-> 0, detail |-> "none"]
    /\ registered = {}
    /\ verified = {}
    /\ inflight = {}

Ids == 1..MaxId

Next ==
    \/ \E u \in Names, e \in Emails, p \in Passwords : register(u, e, p) /\ UNCHANGED nonAuthVars
    \/ \E f \in Names \cup Emails, p \in Passwords : login_for_access_token(f, p) /\ UNCHANGED nonAuthVars
    \/ \E t \in issued \cup {NoSubToken, GarbageToken} : verify_email(t) /\ UNCHANGED nonAuthVars
    \/ \E e \in Emails : forgot_password(e) /\ UNCHANGED nonAuthVars
    \/ create_initial_admin /\ UNCHANGED nonAuthVars
    \/ \E u \in Names, e \in Emails : create_admin_user(u, e, ADMIN_PASSWORD) /\ UNCHANGED nonAuthVars
    \/ \E pk \in Ids, u \in Names, e \in Emails, r \in FormRoles, s \in FormStatuses :
          update_model(pk, u, e, r, s) /\ UNCHANGED nonAuthVars
    \/ \E pk \in Ids : delete_model(pk) /\ UNCHANGED nonAuthVars

StoreIdle ==
    /\ bucket = {}
    /\ upload = [status |-> 0]

CallIdle == call = [method |-> "", segs |-> <<>>, action |-> "idle"]

NoUser == "None"

AuditIdle ==
    /\ audit = <<>>
    /\ mw = [pc |-> "idle", req |-> 0, method |-> "", segs |-> <<>>, skip |-> FALSE,
             action |-> "none", user_id |-> NoUser, status |-> 0, raised |-> FALSE,
             before |-> 0]

NoRow == NewUser(0, "None", "None", "None", "viewer", "inactive", FALSE)
NoHeader == [scheme |-> "", param |-> NoToken]
NoCookie == [prefix |-> FALSE, value |-> NoToken]

(* Python's Optional[str]: None, or a string (a sequence of characters). *)
None == [some |-> FALSE, v |-> <<>>]
Some(v) == [some |-> TRUE, v |-> v]

NoObject == [role |-> "viewer", username |-> None, first_name |-> None, last_name |-> None,
             op |-> "none", required_role |-> "viewer", permitted |-> FALSE, name |-> None]

(* A JSON value: a string, or an object, its fields a function of its keys. *)
JStr(s) == [kind |-> "str", v |-> s, fields |-> <<>>]
JObj(fields) == [kind |-> "obj", v |-> "", fields |-> fields]
EmptyBody == JObj(<<>>)

NoUserId == 0

NoRequest == [pc |-> "idle", method |-> "", segs |-> <<>>, json |-> FALSE, raw |-> EmptyBody,
              skip |-> FALSE, user_id |-> NoUserId, request_body |-> EmptyBody,
              action |-> "none", status |-> 0, authenticated |-> NoUserId]

ClockIdle ==
    /\ purpose = {}
    /\ now = 0
    /\ who = [header |-> NoHeader, cookie |-> NoCookie, token |-> NoToken,
              status |-> 0, user |-> NoRow, at |-> 0]
    /\ holders = {}
    /\ otp = [otp_secret |-> "None", otp_expires_at |-> NoExp, generated |-> <<>>,
              op |-> "none", code |-> <<>>, at |-> 0, result |-> FALSE, replay |-> FALSE]
    /\ tx = [pc |-> "idle", n |-> 0, pending |-> {}, committed |-> {}, wrote |-> {},
             raised |-> FALSE, reraised |-> FALSE, closed |-> FALSE,
             commits |-> 0, rollbacks |-> 0]

SideIdle == ClockIdle /\ obj = NoObject /\ rq = NoRequest

Init == AuthInit /\ StoreIdle /\ CallIdle /\ AuditIdle /\ SideIdle

Spec == Init /\ [][Next]_vars

----------------------------------------------------------------------------
(* Requests in flight: a handler's reads and its commit are two steps, and *)
(* other requests run in between.  The commit is one step of the database. *)

MaxInflight == 2

Slots == 1..MaxInflight

FreeSlot(s) == \A req \in inflight : req.slot # s

(* register, lines 56-65: the existence check of one request. *)
RegisterCheck(s, username, email, password) ==
    /\ FreeSlot(s)
    /\ IF ExistingUser(users, username, email) # {}
       THEN /\ resp' = [op |-> "register", username |-> username, email |-> email,
                        password |-> password, status |-> 400,
                        detail |-> "Username or email already registered"]
            /\ UNCHANGED inflight
       ELSE /\ inflight' = inflight \cup
                   {[slot |-> s, kind |-> "register", username |-> username,
                     email |-> email, password |-> password]}
            /\ UNCHANGED resp
    /\ UNCHANGED <<users, nextId, issued, registered, verified>>

(* register, lines 67-86, of a request whose check found no row. *)
RegisterWrite(s) ==
    \E req \in inflight :
        /\ req.slot = s
        /\ req.kind = "register"
        /\ nextId <= MaxId
        /\ RegisterCreate(req.username, req.email, req.password)
        /\ inflight' = inflight \ {req}

(* create_initial_admin, lines 41-45: the count of one starting worker. *)
InitialAdminCheck(s) ==
    /\ FreeSlot(s)
    /\ IF Cardinality(users) = 0
       THEN /\ inflight' = inflight \cup {[slot |-> s, kind |-> "create_initial_admin"]}
            /\ UNCHANGED resp
       ELSE /\ resp' = [op |-> "create_initial_admin", username |-> "admin",
                        email |-> ADMIN_EMAIL, status |-> 0, detail |-> "skipped"]
            /\ UNCHANGED inflight
    /\ UNCHANGED <<users, nextId, issued, registered, verified>>

(* create_initial_admin, lines 46-60. *)
InitialAdminWrite(s) ==
    \E req \in inflight :
        /\ req.slot = s
        /\ req.kind = "create_initial_admin"
        /\ InsertUser("create_initial_admin", InitialAdminRow)
        /\ inflight' = inflight \ {req}
        /\ UNCHANGED issued

RaceNext ==
    \/ \E s \in Slots, u \in Names, e \in Emails : RegisterCheck(s, u, e, ADMIN_PASSWORD) /\ UNCHANGED nonAuthVars
    \/ \E s \in Slots : RegisterWrite(s) /\ UNCHANGED nonAuthVars
    \/ \E s \in Slots : InitialAdminCheck(s) /\ UNCHANGED nonAuthVars
    \/ \E s \in Slots : InitialAdminWrite(s) /\ UNCHANGED nonAuthVars
    \/ \E u \in Names, e \in Emails : create_admin_user(u, e, ADMIN_PASSWORD) /\ UNCHANGED nonAuthVars
    \/ \E pk \in Ids, u \in Names, e \in Emails, r \in FormRoles :
          update_model(pk, u, e, r, "active") /\ UNCHANGED nonAuthVars
    \/ \E pk \in Ids : delete_model(pk) /\ UNCHANGED nonAuthVars

SpecRace == Init /\ [][RaceNext]_vars

(* delete_model, lines 93-102: the read of the target and the query for    *)
(* other admins, of one request.                                           *)
DeleteCheck(s, pk) ==
    LET found == ById(users, pk)
        user == CHOOSE r \in found : TRUE
        base == [op |-> "delete_model", pk |-> pk]
    IN  /\ FreeSlot(s)
        /\ IF found = {}
           THEN /\ resp' = base @@ [status |-> 0, detail |-> "AttributeError"]
                /\ UNCHANGED inflight
           ELSE IF user.role = "admin" /\ OtherAdmins(users, user) = {}
           THEN /\ resp' = base @@ [status |-> 0, detail |-> "Cannot delete the last admin user"]
                /\ UNCHANGED inflight
           ELSE /\ inflight' = inflight \cup {[slot |-> s, kind |-> "delete_model", pk |-> pk]}
                /\ UNCHANGED resp
        /\ UNCHANGED <<users, nextId, issued, registered, verified>>

(* delete_model, line 104: the delete of a request whose check passed. *)
DeleteWrite(s) ==
    \E req \in inflight :
        LET found == ById(users, req.pk)
        IN  /\ req.slot = s
            /\ req.kind = "delete_model"
            /\ users' = users \ found
            /\ Forget({r.username : r \in found})
            /\ resp' = [op |-> "delete_model", pk |-> req.pk, status |-> 0,
                        detail |-> IF found = {} THEN "gone" ELSE "deleted"]
            /\ inflight' = inflight \ {req}
            /\ UNCHANGED <<nextId, issued>>

(* The edit form submitted with the row's own values but for the role. *)
EditRole(pk, role) ==
    \E user \in ById(users, pk) :
        update_model(pk, user.username, user.email, role, user.status)

AdminNext ==
    \/ create_initial_admin /\ UNCHANGED nonAuthVars
    \/ \E u \in Names, e \in Emails : create_admin_user(u, e, ADMIN_PASSWORD) /\ UNCHANGED nonAuthVars
    \/ \E pk \in Ids, r \in FormRoles : EditRole(pk, r) /\ UNCHANGED nonAuthVars
    \/ \E s \in Slots, pk \in Ids : DeleteCheck(s, pk) /\ UNCHANGED nonAuthVars
    \/ \E s \in Slots : DeleteWrite(s) /\ UNCHANGED nonAuthVars

SpecAdmin == Init /\ [][AdminNext]_vars

----------------------------------------------------------------------------
(* app/utils/storage.py *)

MaxLen == 1
MaxObjects == 1
MaxRand == 2

Bytes == {"a", "b"}
Contents == UNION {[1..n -> Bytes] : n \in 0..MaxLen}
Filenames == {"photo.JPG", "notes.pdf"}
Dates == {"2026/11/05"}
UserIds == {1}

MAX_FILE_SIZE == 104857600
(* app/config.py: Settings.MAX_UPLOAD_MB and Settings.upload_limit_bytes *)
MAX_UPLOAD_MB == 1024
upload_limit_bytes == MAX_UPLOAD_MB * 1024 * 1024
CHUNK_SIZE == 8192
(* bytes.__sizeof__() is the size of the object, header included. *)
BYTES_HEADER == 33

(* Path(filename).suffix.lower() *)
Suffix(filename) ==
    CASE filename = "photo.JPG" -> ".jpg"
      [] filename = "notes.pdf" -> ".pdf"
      [] OTHER -> ""

(* hashlib.sha256: the digest stands for the bytes fed to it, in order. *)
sha256_hexdigest(fed) == <<"sha256", fed>>

Min(a, b) == IF a <= b THEN a ELSE b

(* file.read(size): the bytes from the position on, at most size of them   *)
(* (all of them when size is -1); the position moves past them.            *)
FileRead(file, size) ==
    LET rest == Len(file.data) - file.pos
        k == IF size < 0 THEN rest ELSE Min(size, rest)
    IN  [bytes |-> SubSeq(file.data, file.pos + 1, file.pos + k),
         file |-> [file EXCEPT !.pos = @ + k]]

FileSeek(file, pos) == [file EXCEPT !.pos = pos]

SizeOf(bytes) == BYTES_HEADER + Len(bytes)

generate_object_key(filename, user_id, date, rand) ==
    [user_id |-> user_id, date |-> date, unique_id |-> rand, ext |-> Suffix(filename)]

RECURSIVE ChecksumLoop(_, _)
ChecksumLoop(file, fed) ==
    LET r == FileRead(file, CHUNK_SIZE)
    IN  IF r.bytes = <<>>
        THEN [fed |-> fed, file |-> r.file]
        ELSE ChecksumLoop(r.file, fed \o r.bytes)

calculate_checksum(file) ==
    LET done == ChecksumLoop(file, <<>>)
    IN  [checksum |-> sha256_hexdigest(done.fed), file |-> FileSeek(done.file, 0)]

(* s3_client.upload_fileobj: the object is what the file yields from its   *)
(* position on.                                                            *)
PutObject(objects, key, file, checksum, is_public) ==
    {o \in objects : o.key # key} \cup
        {[key |-> key, body |-> FileRead(file, -1).bytes, checksum |-> checksum,
          acl |-> IF is_public THEN "public-read" ELSE "private"]}

NoKey == [user_id |-> 0, date |-> "", unique_id |-> 0, ext |-> ""]

upload_fileRetrying(file, user_id, is_public, date, rand, store_ok, url_ok) ==
    LET whole == FileRead(file, -1)
        file_size == SizeOf(whole.bytes)
        key == generate_object_key(file.filename, user_id, date, rand)
        sum == calculate_checksum(whole.file)
        args == [file |-> file, is_public |-> is_public]
    IN  /\ \/ Cardinality(bucket) < MaxObjects
           \/ \E o \in bucket : o.key = key
        /\ IF file_size > MAX_FILE_SIZE
           THEN /\ upload' = args @@ [status |-> 413, detail |-> "File exceeds limit",
                                      attempts |-> 0, store_error |-> FALSE,
                                      key |-> NoKey,
                                      size |-> file_size, checksum_sha256 |-> <<>>]
                /\ UNCHANGED bucket
           ELSE /\ bucket' = PutObject(bucket, key, sum.file, sum.checksum, is_public)
                /\ upload' = args @@ [status |-> 200, detail |-> "stored",
                                      attempts |-> IF store_ok THEN 1 ELSE 2,
                                      store_error |-> ~store_ok,
                                      key |-> key, size |-> file_size,
                                      checksum_sha256 |-> sum.checksum]

(* get_public_url, lines 114-118: a string built from the settings. *)
get_public_url(key) == [status |-> 200]

(* get_presigned_url, lines 102-112. url_ok: whether                       *)
(* generate_presigned_url returns or raises ClientError.                   *)
get_presigned_url(key, url_ok) ==
    IF url_ok THEN [status |-> 200]
    ELSE [status |-> 500, detail |-> "Failed to generate access URL"]

(* lines 64-100. store_ok: whether upload_fileobj returns or raises        *)
(* ClientError; attempts counts the calls of upload_fileobj.  The          *)
(* HTTPException of get_presigned_url is not a ClientError and leaves      *)
(* upload_file as it is, after the object has been stored.                 *)
upload_file(file, user_id, is_public, date, rand, store_ok, url_ok) ==
    LET whole == FileRead(file, -1)
        file_size == SizeOf(whole.bytes)
        key == generate_object_key(file.filename, user_id, date, rand)
        sum == calculate_checksum(whole.file)
        args == [file |-> file, is_public |-> is_public]
        url == IF is_public THEN get_public_url(key) ELSE get_presigned_url(key, url_ok)
    IN  /\ \/ Cardinality(bucket) < MaxObjects
           \/ \E o \in bucket : o.key = key
        /\ IF file_size > MAX_FILE_SIZE
           THEN /\ upload' = args @@ [status |-> 413, detail |-> "File exceeds limit",
                                      attempts |-> 0, store_error |-> FALSE,
                                      key |-> NoKey,
                                      size |-> file_size, checksum_sha256 |-> <<>>]
                /\ UNCHANGED bucket
           ELSE IF ~store_ok
           THEN /\ upload' = args @@ [status |-> 500, detail |-> "Failed to upload file",
                                      attempts |-> 1, store_error |-> TRUE,
                                      key |-> NoKey,
                                      size |-> file_size, checksum_sha256 |-> <<>>]
                /\ UNCHANGED bucket
           ELSE IF url.status # 200
           THEN /\ bucket' = PutObject(bucket, key, sum.file, sum.checksum, is_public)
                /\ upload' = args @@ [status |-> url.status, detail |-> url.detail,
                                      attempts |-> 1, store_error |-> FALSE,
                                      key |-> NoKey,
                                      size |-> file_size, checksum_sha256 |-> <<>>]
           ELSE /\ bucket' = PutObject(bucket, key, sum.file, sum.checksum, is_public)
                /\ upload' = args @@ [status |-> 200, detail |-> "stored",
                                      attempts |-> 1, store_error |-> FALSE,
                                      key |-> key, size |-> file_size,
                                      checksum_sha256 |-> sum.checksum]

delete_file(key) ==
    /\ \E o \in bucket : o.key = key
    /\ bucket' = {o \in bucket : o.key # key}
    /\ UNCHANGED upload

(* An UploadFile as the framework hands it over: at position 0. *)
Files == {[filename |-> f, data |-> d, pos |-> 0] : f \in Filenames, d \in Contents}

AuthIdle ==
    /\ users = {}
    /\ nextId = 1
    /\ issued = {}
    /\ resp = [op |-> "none", status |-> 0, detail |-> "none"]
    /\ registered = {}
    /\ verified = {}
    /\ inflight = {}

UploadInit == AuthIdle /\ StoreIdle /\ CallIdle /\ AuditIdle /\ SideIdle

UploadNext ==
    \/ \E file \in Files, u \in UserIds, pub \in BOOLEAN, d \in Dates,
          rand \in 1..MaxRand, ok \in BOOLEAN :
          \E url_ok \in IF ok /\ ~pub THEN BOOLEAN ELSE {TRUE} :
          /\ upload_file(file, u, pub, d, rand, ok, url_ok)
          /\ UNCHANGED nonStoreVars
    \/ \E o \in bucket : delete_file(o.key) /\ UNCHANGED nonStoreVars

SpecUpload == UploadInit /\ [][UploadNext]_vars

----------------------------------------------------------------------------
(* Strings as sequences of characters, with the str methods the           *)
(* middleware uses.                                                        *)

Digits == {"0", "1", "2", "3", "4", "5", "6", "7", "8", "9"}

RECURSIVE LStrip(_, _)
LStrip(s, c) == IF s # <<>> /\ Head(s) = c THEN LStrip(Tail(s), c) ELSE s

RECURSIVE RStrip(_, _)
RStrip(s, c) ==
    IF s # <<>> /\ s[Len(s)] = c THEN RStrip(SubSeq(s, 1, Len(s) - 1), c) ELSE s

(* s.strip(c) *)
Strip(s, c) == RStrip(LStrip(s, c), c)

RECURSIVE SplitFrom(_, _, _)
SplitFrom(s, c, piece) ==
    IF s = <<>> THEN <<piece>>
    ELSE IF Head(s) = c THEN <<piece>> \o SplitFrom(Tail(s), c, <<>>)
    ELSE SplitFrom(Tail(s), c, Append(piece, Head(s)))

(* s.split(c): one piece more than there are separators, never none. *)
Split(s, c) == SplitFrom(s, c, <<>>)

(* s.startswith(prefix) *)
StartsWith(s, prefix) ==
    Len(s) >= Len(prefix) /\ SubSeq(s, 1, Len(prefix)) = prefix

(* s.isdigit() *)
IsDigit(s) == s # <<>> /\ \A i \in 1..Len(s) : s[i] \in Digits

(* sub in s *)
Contains(s, sub) ==
    \E i \in 0..(Len(s) - Len(sub)) : SubSeq(s, i + 1, i + Len(sub)) = sub

----------------------------------------------------------------------------
(* app/middleware.py: _determine_action *)

AuditAction ==
    {"USER_LOGIN", "USER_LOGOUT", "USER_CREATE", "USER_PASSWORD_CHANGE",
     "USER_PASSWORD_RESET", "USER_UPDATE", "USER_DELETE", "ASSET_UPLOAD",
     "ASSET_UPDATE", "ASSET_DELETE", "ASSET_DOWNLOAD", "READ", "CREATE",
     "UPDATE", "DELETE"}

P_auth_login == <<"/", "a", "u", "t", "h", "/", "l", "o", "g", "i", "n">>
P_auth_logout == <<"/", "a", "u", "t", "h", "/", "l", "o", "g", "o", "u", "t">>
P_auth_register == <<"/", "a", "u", "t", "h", "/", "r", "e", "g", "i", "s", "t", "e", "r">>
P_auth_password_change ==
    <<"/", "a", "u", "t", "h", "/", "p", "a", "s", "s", "w", "o", "r", "d", "/", "c", "h", "a", "n", "g", "e">>
P_auth_password_reset ==
    <<"/", "a", "u", "t", "h", "/", "p", "a", "s", "s", "w", "o", "r", "d", "/", "r", "e", "s", "e", "t">>
W_users == <<"u", "s", "e", "r", "s">>
W_assets == <<"a", "s", "s", "e", "t", "s">>

DefaultActionNoFallback(method) ==
    CASE method = "GET" -> "READ"
      [] method = "POST" -> "CREATE"
      [] method = "PUT" -> "UPDATE"
      [] method = "PATCH" -> "UPDATE"
      [] method = "DELETE" -> "DELETE"
      [] OTHER -> "KeyError"

(* lines 118-124: the method table, with READ for a method it lacks. *)
DefaultAction(method) ==
    CASE method = "GET" -> "READ"
      [] method = "POST" -> "CREATE"
      [] method = "PUT" -> "UPDATE"
      [] method = "PATCH" -> "UPDATE"
      [] method = "DELETE" -> "DELETE"
      [] OTHER -> "READ"

(* lines 98-115: the branch of the first path part; "fallthrough" when no  *)
(* return statement of the branch is reached.                              *)
ResourceAction(method, path_parts) ==
    IF path_parts = <<>> THEN "IndexError"
    ELSE IF path_parts[1] = W_users
    THEN CASE method = "POST" -> "USER_CREATE"
           [] method \in {"PUT", "PATCH"} -> "USER_UPDATE"
           [] method = "DELETE" -> "USER_DELETE"
           [] OTHER -> "fallthrough"
    ELSE IF path_parts[1] = W_assets
    THEN CASE method = "POST" -> "ASSET_UPLOAD"
           [] method \in {"PUT", "PATCH"} -> "ASSET_UPDATE"
           [] method = "DELETE" -> "ASSET_DELETE"
           [] method = "GET" /\ Len(path_parts) > 1 /\ IsDigit(path_parts[2])
                -> "ASSET_DOWNLOAD"
           [] OTHER -> "fallthrough"
    ELSE "fallthrough"

AuthActionAnyMethod(method, path) ==
    IF path = P_auth_login THEN "USER_LOGIN"
    ELSE IF path = P_auth_logout THEN "USER_LOGOUT"
    ELSE IF path = P_auth_register THEN "USER_CREATE"
    ELSE IF StartsWith(path, P_auth_password_change) THEN "USER_PASSWORD_CHANGE"
    ELSE IF StartsWith(path, P_auth_password_reset) THEN "USER_PASSWORD_RESET"
    ELSE "fallthrough"

(* lines 86-95 *)
AuthAction(method, path) ==
    IF path = P_auth_login /\ method = "POST" THEN "USER_LOGIN"
    ELSE IF path = P_auth_logout /\ method = "POST" THEN "USER_LOGOUT"
    ELSE IF path = P_auth_register /\ method = "POST" THEN "USER_CREATE"
    ELSE IF StartsWith(path, P_auth_password_change) /\ method = "POST"
    THEN "USER_PASSWORD_CHANGE"
    ELSE IF StartsWith(path, P_auth_password_reset) /\ method = "POST"
    THEN "USER_PASSWORD_RESET"
    ELSE "fallthrough"

determine_action(method, path) ==
    LET path_parts == Split(Strip(path, "/"), "/")
        auth == AuthAction(method, path)
        resource == ResourceAction(method, path_parts)
    IN  IF auth # "fallthrough" THEN auth
        ELSE IF resource # "fallthrough" THEN resource
        ELSE DefaultAction(method)

----------------------------------------------------------------------------
(* The requests the classifier is applied to: a path is a run of segments, *)
(* each written after a slash.                                             *)

MaxTail == 2
MaxLead == 1

Methods == {"GET", "POST", "PUT", "PATCH", "DELETE", "OPTIONS"}

SegChars(name) ==
    CASE name = "auth" -> <<"a", "u", "t", "h">>
      [] name = "login" -> <<"l", "o", "g", "i", "n">>
      [] name = "logout" -> <<"l", "o", "g", "o", "u", "t">>
      [] name = "register" -> <<"r", "e", "g", "i", "s", "t", "e", "r">>
      [] name = "password" -> <<"p", "a", "s", "s", "w", "o", "r", "d">>
      [] name = "change" -> <<"c", "h", "a", "n", "g", "e">>
      [] name = "reset" -> <<"r", "e", "s", "e", "t">>
      [] name = "users" -> <<"u", "s", "e", "r", "s">>
      [] name = "assets" -> <<"a", "s", "s", "e", "t", "s">>
      [] name = "42" -> <<"4", "2">>
      [] name = "x" -> <<"x">>
      [] name = "static" -> <<"s", "t", "a", "t", "i", "c">>
      [] name = "health" -> <<"h", "e", "a", "l", "t", "h">>
      [] name = "favicon.ico" -> <<"f", "a", "v", "i", "c", "o", "n", ".", "i", "c", "o">>
      [] name = "api" -> <<"a", "p", "i">>
      [] name = "docs" -> <<"d", "o", "c", "s">>
      [] name = "redoc" -> <<"r", "e", "d", "o", "c">>
      [] name = "openapi.json" -> <<"o", "p", "e", "n", "a", "p", "i", ".", "j", "s", "o", "n">>
      [] name = "token" -> <<"t", "o", "k", "e", "n">>
      [] name = "me" -> <<"m", "e">>
      [] name = "verify-email" -> <<"v", "e", "r", "i", "f", "y", "-", "e", "m", "a", "i", "l">>
      [] name = "forgot-password" ->
            <<"f", "o", "r", "g", "o", "t", "-", "p", "a", "s", "s", "w", "o", "r", "d">>
      [] name = "reset-password" ->
            <<"r", "e", "s", "e", "t", "-", "p", "a", "s", "s", "w", "o", "r", "d">>
      [] name = "v1" -> <<"v", "1">>
      [] OTHER -> <<>>

RECURSIVE PathOf(_)
PathOf(segs) ==
    IF segs = <<>> THEN <<>>
    ELSE <<"/">> \o SegChars(Head(segs)) \o PathOf(Tail(segs))

Stems ==
    {<<>>, <<"auth">>, <<"auth", "login">>, <<"auth", "logout">>,
     <<"auth", "register">>, <<"auth", "password">>,
     <<"auth", "password", "change">>, <<"auth", "password", "reset">>,
     <<"users">>, <<"assets">>}

TailSegs == {"", "42", "x", "users", "assets"}

Leads == UNION {[1..n -> {""}] : n \in 0..MaxLead}
Tails == UNION {[1..n -> TailSegs] : n \in 0..MaxTail}

ActionInit ==
    /\ AuthIdle
    /\ StoreIdle
    /\ AuditIdle
    /\ SideIdle
    /\ \E m \in Methods, lead \in Leads, stem \in Stems, tail \in Tails :
          call = [method |-> m, segs |-> lead \o stem \o tail, action |-> "pending"]

Classify ==
    /\ call.action = "pending"
    /\ call' = [call EXCEPT !.action = determine_action(call.method, PathOf(call.segs))]
    /\ UNCHANGED nonCallVars

SpecAction == ActionInit /\ [][Classify]_vars

(* The routes of the application.  auth/router.py declares its routes      *)
(* under the router's own prefix "/auth" (line 23) and main.py mounts the  *)
(* router under "/auth" once more (line 114); the API router is mounted    *)
(* under "/api/v1" (line 110).                                             *)
AuthRoutes ==
    {<<"register">>, <<"token">>, <<"logout">>, <<"me">>, <<"verify-email", "x">>,
     <<"forgot-password">>, <<"reset-password">>}

ResourceRoutes == {<<"users">>, <<"users", "42">>, <<"assets">>, <<"assets", "42">>}

RouterPrefix == <<"auth">>
AuthMount == <<"auth">>
ApiMount == <<"api", "v1">>

(* The paths requests are sent to: the routes as mounted, the auth routes  *)
(* under one "/auth", and the resource routes with and without a mount.    *)
RequestPaths ==
    {AuthMount \o RouterPrefix \o r : r \in AuthRoutes}
        \cup {RouterPrefix \o r : r \in AuthRoutes}
        \cup {ApiMount \o r : r \in ResourceRoutes}
        \cup ResourceRoutes

ServedInit ==
    /\ AuthIdle
    /\ StoreIdle
    /\ AuditIdle
    /\ SideIdle
    /\ \E m \in Methods, segs \in RequestPaths :
          call = [method |-> m, segs |-> segs, action |-> "pending"]

SpecServed == ServedInit /\ [][Classify]_vars

----------------------------------------------------------------------------
(* app/middleware.py: AuditLogMiddleware.dispatch and _log_audit_entry;    *)
(* app/admin/audit_log.py: AuditLogAdmin.                                  *)

MaxAudit == 2

(* lines 23-30: the paths that are not logged, matched as substrings. *)
SkipList ==
    {PathOf(<<"static">>), PathOf(<<"health">>), PathOf(<<"favicon.ico">>),
     PathOf(<<"api", "docs">>), PathOf(<<"api", "redoc">>),
     PathOf(<<"api", "openapi.json">>)}

Skipped(path) == \E entry \in SkipList : Contains(path, entry)

(* The requests that arrive at the middleware. *)
AuditMethods == {"GET", "POST"}
AuditPaths == {<<"auth", "register">>, <<"users", "42">>, <<"health">>, <<"users", "health">>}

(* What a handler other than register answers. *)
HandlerStatuses == {200, 404}

(* lines 23-55: up to the call of the downstream handler. request.state    *)
(* has no user when dispatch starts: nothing upstream of it sets one.      *)
dispatch_begin(method, segs) ==
    LET path == PathOf(segs)
    IN  /\ mw.pc \in {"idle", "done"}
        /\ mw.req < MaxAudit
        /\ mw' = [pc |-> "call_next", req |-> mw.req + 1, method |-> method, segs |-> segs,
                  skip |-> Skipped(path),
                  action |-> IF Skipped(path) THEN "none" ELSE determine_action(method, path),
                  user_id |-> NoUser, status |-> 0, raised |-> FALSE,
                  before |-> Len(audit)]
        /\ UNCHANGED <<audit, authVars>>

(* line 31 and line 59: the handler answers with a response, or raises an  *)
(* exception that no handler below the middleware turns into a response;   *)
(* the exception leaves dispatch at line 59.                               *)
AfterHandler(status, raised) ==
    mw' = [mw EXCEPT !.status = status, !.raised = raised,
                     !.pc = IF mw.skip \/ raised THEN "done" ELSE "log"]

call_next ==
    /\ mw.pc = "call_next"
    /\ IF mw.method = "POST" /\ mw.segs = <<"auth", "register">>
       THEN \E u \in Names, e \in Emails, p \in Passwords :
               /\ register(u, e, p)
               /\ AfterHandler(resp'.status, resp'.detail = "AttributeError")
       ELSE \E status \in HandlerStatuses :
               /\ AfterHandler(status, FALSE)
               /\ UNCHANGED authVars
    /\ UNCHANGED audit

(* lines 66-77 and 126-174 *)
log_audit_entry ==
    LET path == PathOf(mw.segs)
        audit_log == [action |-> mw.action, user_id |-> mw.user_id,
                      status_code |-> mw.status]
    IN  /\ mw.pc = "log"
        /\ IF path = PathOf(<<"health">>) /\ mw.status = 200
           THEN UNCHANGED audit
           ELSE audit' = Append(audit, audit_log)
        /\ mw' = [mw EXCEPT !.pc = "done"]
        /\ UNCHANGED authVars

can_deleteAllowed == TRUE

(* lines 64-66 *)
can_create == FALSE
can_edit == FALSE
can_delete == FALSE

RemoveAt(rows, i) == SubSeq(rows, 1, i - 1) \o SubSeq(rows, i + 1, Len(rows))

(* The admin panel's create, edit and delete of the AuditLog view: the     *)
(* panel answers 403 when the view does not allow the operation.           *)
AuditLogAdminCreate ==
    /\ IF can_create
       THEN /\ Len(audit) < MaxAudit
            /\ audit' = Append(audit, [action |-> "READ", user_id |-> NoUser, status_code |-> 200])
            /\ resp' = [op |-> "auditlog_create", status |-> 302, detail |-> "created"]
       ELSE /\ UNCHANGED audit
            /\ resp' = [op |-> "auditlog_create", status |-> 403, detail |-> "Forbidden"]
    /\ UNCHANGED <<users, nextId, issued, registered, verified, inflight, mw>>

AuditLogAdminEdit(i, status_code) ==
    /\ i \in 1..Len(audit)
    /\ IF can_edit
       THEN /\ audit' = [audit EXCEPT ![i].status_code = status_code]
            /\ resp' = [op |-> "auditlog_edit", status |-> 302, detail |-> "updated"]
       ELSE /\ UNCHANGED audit
            /\ resp' = [op |-> "auditlog_edit", status |-> 403, detail |-> "Forbidden"]
    /\ UNCHANGED <<users, nextId, issued, registered, verified, inflight, mw>>

AuditLogAdminDelete(i) ==
    /\ i \in 1..Len(audit)
    /\ IF can_delete
       THEN /\ audit' = RemoveAt(audit, i)
            /\ resp' = [op |-> "auditlog_delete", status |-> 200, detail |-> "deleted"]
       ELSE /\ UNCHANGED audit
            /\ resp' = [op |-> "auditlog_delete", status |-> 403, detail |-> "Forbidden"]
    /\ UNCHANGED <<users, nextId, issued, registered, verified, inflight, mw>>

AuditNext ==
    \/ \E m \in AuditMethods, segs \in AuditPaths :
          dispatch_begin(m, segs) /\ UNCHANGED <<bucket, upload, call, sideVars>>
    \/ call_next /\ UNCHANGED <<bucket, upload, call, sideVars>>
    \/ log_audit_entry /\ UNCHANGED <<bucket, upload, call, sideVars>>
    \/ AuditLogAdminCreate /\ UNCHANGED <<bucket, upload, call, sideVars>>
    \/ \E i \in 1..MaxAudit, c \in HandlerStatuses :
          AuditLogAdminEdit(i, c) /\ UNCHANGED <<bucket, upload, call, sideVars>>
    \/ \E i \in 1..MaxAudit : AuditLogAdminDelete(i) /\ UNCHANGED <<bucket, upload, call, sideVars>>
    \/ create_initial_admin /\ UNCHANGED nonAuthVars
    \/ \E pk \in Ids : delete_model(pk) /\ UNCHANGED nonAuthVars

SpecAudit == Init /\ [][AuditNext]_vars

----------------------------------------------------------------------------
(* app/utils/security.py: get_current_user; app/auth/router.py: logout and *)
(* reset_password; the clock.                                              *)

MaxTime == 3
MaxTokens == 2

Schemes == {"Bearer", "bearer", "Basic"}

(* str.lower() on the schemes above. *)
Lower(scheme) == IF scheme = "Bearer" THEN "bearer" ELSE IF scheme = "Basic" THEN "basic" ELSE scheme

NoCredentials == [scheme |-> "", credentials |-> NoToken]

(* line 32, HTTPBearer(auto_error=False): the Authorization header split   *)
(* into scheme and credentials, None unless the scheme is bearer in any    *)
(* case and the credentials are not empty.                                 *)
bearer_scheme(header) ==
    IF header = NoHeader \/ header.param = NoToken \/ Lower(header.scheme) # "bearer"
    THEN NoCredentials
    ELSE [scheme |-> header.scheme, credentials |-> header.param]

(* lines 26-29, OAuth2PasswordBearer(auto_error=False): the parameter of   *)
(* the same header when its scheme is bearer in any case, else None.       *)
oauth2_scheme(header) ==
    IF header = NoHeader \/ Lower(header.scheme) # "bearer" THEN NoToken ELSE header.param

(* A cookie's value: a token, with or without 'Bearer ' in front of it.    *)
(* jwt.decode of a value with the prefix left on fails.                    *)
Unprefixed(value) == [prefix |-> FALSE, value |-> value]

Decoded(string) == IF string.prefix THEN GarbageToken ELSE string.value

(* lines 68-80 *)
TokenValueCookieFirst(header, cookie) ==
    IF cookie # NoCookie /\ cookie.value # NoToken
    THEN Unprefixed(cookie.value)
    ELSE Unprefixed(oauth2_scheme(header))

TokenValue(header, cookie) ==
    LET credentials == bearer_scheme(header)
        token == oauth2_scheme(header)
    IN  IF credentials # NoCredentials /\ credentials.scheme = "Bearer"
        THEN Unprefixed(credentials.credentials)
        ELSE IF token # NoToken
        THEN Unprefixed(token)
        ELSE IF cookie # NoCookie /\ cookie.value # NoToken /\ cookie.prefix
        THEN Unprefixed(cookie.value)
        ELSE cookie

get_current_userActiveOnly(header, cookie) ==
    LET token_value == TokenValue(header, cookie)
        payload == Decoded(token_value)
        found == ByUsername(users, payload.sub)
        user == CHOOSE r \in found : TRUE
        base == [header |-> header, cookie |-> cookie, token |-> payload, at |-> now]
        refused == base @@ [status |-> 401, user |-> NoRow]
    IN  /\ who' = IF token_value.value = NoToken THEN refused
                  ELSE IF ~jwt_decodes(payload) THEN refused
                  ELSE IF payload.sub = "None" THEN refused
                  ELSE IF payload.type # "access" THEN refused
                  ELSE IF found = {} \/ user.status # "active" THEN refused
                  ELSE base @@ [status |-> 200, user |-> user]
        /\ UNCHANGED <<authVars, now, holders>>

(* lines 54-113: the user row of the token's sub, or 401. *)
get_current_user(header, cookie) ==
    LET token_value == TokenValue(header, cookie)
        payload == Decoded(token_value)
        found == ByUsername(users, payload.sub)
        user == CHOOSE r \in found : TRUE
        base == [header |-> header, cookie |-> cookie, token |-> payload, at |-> now]
        refused == base @@ [status |-> 401, user |-> NoRow]
    IN  /\ who' = IF token_value.value = NoToken THEN refused
                  ELSE IF ~jwt_decodes(payload) THEN refused
                  ELSE IF payload.sub = "None" THEN refused
                  ELSE IF payload.type # "access" THEN refused
                  ELSE IF found = {} THEN refused
                  ELSE base @@ [status |-> 200, user |-> user]
        /\ UNCHANGED <<authVars, now, holders>>

(* router.py 137-141: the response asks the browser to drop the cookie;    *)
(* nothing is kept or changed on the server.                               *)
logout ==
    /\ resp' = [op |-> "logout", status |-> 200, detail |-> "Successfully logged out"]
    /\ UNCHANGED <<users, nextId, issued, registered, verified, inflight, now, who, holders>>

reset_passwordResetOnly(token, new_password) ==
    /\ resp' = [op |-> "reset_password", token |-> token, new_password |-> new_password,
                status |-> IF <<token, "forgot_password">> \in purpose THEN 200 ELSE 400,
                detail |-> "Invalid token"]
    /\ UNCHANGED <<users, registered, verified, nextId, issued, inflight, now, who, holders>>

(* router.py 207-240 *)
reset_password(token, new_password) ==
    LET found == ByUsername(users, token.sub)
        user == CHOOSE r \in found : TRUE
        base == [op |-> "reset_password", token |-> token, new_password |-> new_password]
    IN  /\ IF ~jwt_decodes(token)
           THEN /\ resp' = base @@ [status |-> 400, detail |-> "Invalid or expired token"]
                /\ UNCHANGED <<users, registered, verified>>
           ELSE IF token.sub = "None"
           THEN /\ resp' = base @@ [status |-> 400, detail |-> "Invalid token"]
                /\ UNCHANGED <<users, registered, verified>>
           ELSE IF found = {}
           THEN /\ resp' = base @@ [status |-> 404, detail |-> "User not found"]
                /\ UNCHANGED <<users, registered, verified>>
           ELSE /\ users' = (users \ {user}) \cup
                        {[user EXCEPT !.password_hash = get_password_hash(new_password)]}
                /\ Forget({user.username})
                /\ resp' = base @@ [status |-> 200, detail |-> "Password updated successfully"]
        /\ UNCHANGED <<nextId, issued, inflight, now, who, holders>>

(* A login, with the row the token was issued for remembered. *)
SessionLogin(field, password) ==
    /\ Cardinality(issued) < MaxTokens
    /\ login_for_access_token(field, password)
    /\ holders' = IF resp'.status = 200
                  THEN holders \cup {<<resp'.token, (CHOOSE r \in LoginUser(users, field) : TRUE).id>>}
                  ELSE holders
    /\ UNCHANGED <<now, who>>

Tick ==
    /\ now < MaxTime
    /\ now' = now + 1
    /\ UNCHANGED <<authVars, who, holders>>

PresentedTokens == issued \cup {GarbageToken, NoSubToken}

Headers ==
    {NoHeader} \cup {[scheme |-> sch, param |-> t] : sch \in Schemes, t \in PresentedTokens \cup {NoToken}}

Cookies ==
    {NoCookie} \cup {[prefix |-> b, value |-> t] : b \in BOOLEAN, t \in PresentedTokens}

sessionRest == <<bucket, upload, call, auditVars, otp, tx, obj, rq, purpose>>

(* The ways a browser or an API client presents a token it was given. *)
ClientHeaders == {NoHeader} \cup {[scheme |-> "Bearer", param |-> t] : t \in issued}
ClientCookies == {NoCookie} \cup {[prefix |-> TRUE, value |-> t] : t \in issued}

SessionNext ==
    \/ create_initial_admin /\ UNCHANGED nonAuthVars
    \/ \E p \in Passwords : SessionLogin("admin", p) /\ UNCHANGED sessionRest
    \/ logout /\ UNCHANGED sessionRest
    \/ \E t \in issued : reset_password(t, "wrong") /\ UNCHANGED sessionRest
    \/ \E pk \in Ids, u \in Names, st \in FormStatuses :
          update_model(pk, u, ADMIN_EMAIL, "admin", st) /\ UNCHANGED nonAuthVars
    \/ Tick /\ UNCHANGED sessionRest
    \/ \E header \in ClientHeaders, cookie \in ClientCookies :
          get_current_user(header, cookie) /\ UNCHANGED sessionRest

SpecSession == Init /\ [][SessionNext]_vars

(* get_current_user on every combination of header and cookie. *)
CurrentUserNext ==
    \/ create_initial_admin /\ UNCHANGED nonAuthVars
    \/ SessionLogin("admin", ADMIN_PASSWORD) /\ UNCHANGED sessionRest
    \/ Tick /\ UNCHANGED sessionRest
    \/ \E header \in Headers, cookie \in Cookies :
          get_current_user(header, cookie) /\ UNCHANGED sessionRest

SpecCurrentUser == Init /\ [][CurrentUserNext]_vars

----------------------------------------------------------------------------
(* The tokens of one operation presented to another.                       *)

(* A login, with the token remembered as a login's. *)
TokenLogin(field, password) ==
    /\ SessionLogin(field, password)
    /\ purpose' = IF resp'.status = 200 THEN purpose \cup {<<resp'.token, "login">>}
                  ELSE purpose

(* forgot_password, with the mailed token remembered as a reset token. *)
TokenForgot(email) ==
    /\ Cardinality(issued) < MaxTokens
    /\ forgot_password(email)
    /\ purpose' = purpose \cup {<<t, "forgot_password">> : t \in issued' \ issued}
    /\ UNCHANGED <<now, who, holders>>

(* The edit form's email_verified column (admin/user.py 37). *)
update_email_verified(pk, value) ==
    /\ \E user \in ById(users, pk) :
          /\ users' = (users \ {user}) \cup {[user EXCEPT !.email_verified = value]}
          /\ resp' = [op |-> "update_model", pk |-> pk, status |-> 0, detail |-> "updated"]
    /\ UNCHANGED <<nextId, issued, registered, verified, inflight>>

tokenRest == <<bucket, upload, call, auditVars, otp, tx, obj, rq>>

TokenNext ==
    \/ create_initial_admin /\ UNCHANGED nonAuthVars
    \/ TokenLogin("admin", ADMIN_PASSWORD) /\ UNCHANGED tokenRest
    \/ TokenForgot(ADMIN_EMAIL) /\ UNCHANGED tokenRest
    \/ \E t \in PresentedTokens : reset_password(t, "wrong") /\ UNCHANGED sessionRest
    \/ \E t \in PresentedTokens : verify_email(t) /\ UNCHANGED nonAuthVars
    \/ Tick /\ UNCHANGED sessionRest
    \/ \E header \in ClientHeaders :
          get_current_user(header, NoCookie) /\ UNCHANGED sessionRest

SpecToken == Init /\ [][TokenNext]_vars

(* verify_email on accounts the admin form has suspended or marked as not  *)
(* verified.                                                               *)
VerifyNext ==
    \/ create_initial_admin /\ UNCHANGED nonAuthVars
    \/ TokenLogin("admin", ADMIN_PASSWORD) /\ UNCHANGED tokenRest
    \/ \E t \in PresentedTokens : verify_email(t) /\ UNCHANGED nonAuthVars
    \/ \E pk \in Ids, u \in Names, st \in UserStatus :
          update_model(pk, u, ADMIN_EMAIL, "admin", st) /\ UNCHANGED nonAuthVars
    \/ \E pk \in Ids, v \in BOOLEAN : update_email_verified(pk, v) /\ UNCHANGED nonAuthVars
    \/ Tick /\ UNCHANGED sessionRest

SpecVerify == Init /\ [][VerifyNext]_vars

----------------------------------------------------------------------------
(* app/middleware.py: what dispatch reads from a request and what          *)
(* _log_audit_entry writes of it.  The rows of this part carry the         *)
(* metadata column as well.                                                *)

MaxDepth == 2

REDACTED == "***REDACTED***"

(* line 48 *)
SensitiveFields == {"password", "new_password", "current_password", "token"}

(* lines 48-50: the fields of the body itself that bear a sensitive name   *)
(* are overwritten; the values of the other fields are kept as they are.   *)
Redact(body) ==
    JObj([k \in DOMAIN body.fields |->
             IF k \in SensitiveFields THEN JStr(REDACTED) ELSE body.fields[k]])

(* Bytes that are not JSON, and what dispatch puts in their place (52). *)
InvalidJson == [kind |-> "invalid", v |-> "", fields |-> <<>>]
ParseError == JObj([k \in {"error"} |-> JStr("Failed to parse JSON body")])

(* lines 43-52 *)
RequestBody(method, json, raw) ==
    IF method \in {"POST", "PUT", "PATCH"} /\ json
    THEN IF raw = InvalidJson THEN ParseError ELSE Redact(raw)
    ELSE EmptyBody

(* lines 153-157: the paths whose body is left out, matched as substrings. *)
SensitivePaths ==
    {PathOf(<<"auth", "login">>), PathOf(<<"auth", "register">>), PathOf(<<"auth", "password">>)}

(* lines 144-158: Python's truth value of the body, an empty dict is false. *)
Metadata(method, path, request_body) ==
    LET kept == /\ request_body # EmptyBody
                /\ ~\E p \in SensitivePaths : Contains(path, p)
    IN  [method |-> method, path |-> path, has_request_body |-> kept,
         request_body |-> IF kept THEN request_body ELSE EmptyBody]

(* The JSON bodies clients send: objects of the keys below, nested up to   *)
(* MaxDepth.                                                               *)
BodyKeys == {"password", "user"}
BodyStrings == {"hunter2"}

RECURSIVE JsonValues(_)
JsonValues(depth) ==
    IF depth = 0 THEN {JStr(str) : str \in BodyStrings}
    ELSE LET below == JsonValues(depth - 1)
         IN  below \cup {JObj(f) : f \in UNION {[D -> below] : D \in SUBSET BodyKeys}}

Bodies == {v \in JsonValues(MaxDepth) : v.kind = "obj"} \cup {InvalidJson}

DispatchPaths ==
    {<<"auth", "me">>, <<"auth", "register">>, <<"auth", "reset-password">>,
     <<"api", "v1", "users">>, <<"health">>}

(* The requests that arrive: a GET, which has no body, and a POST with a   *)
(* JSON body or with a body of another content type, which is not read.    *)
Requests ==
    {[method |-> "GET", segs |-> segs, json |-> FALSE, raw |-> EmptyBody] :
        segs \in DispatchPaths}
    \cup {[method |-> "POST", segs |-> segs, json |-> TRUE, raw |-> raw] :
             segs \in DispatchPaths, raw \in Bodies}
    \cup {[method |-> "POST", segs |-> segs, json |-> FALSE, raw |-> InvalidJson] :
             segs \in DispatchPaths}

(* lines 23-55: up to the call of the downstream handler.  request.state   *)
(* has no user at this point: nothing that runs before dispatch sets one.  *)
dispatch_read ==
    LET path == PathOf(rq.segs)
        skip == Skipped(path)
    IN  /\ rq.pc = "arrived"
        /\ rq' = [rq EXCEPT
                    !.pc = "call_next", !.skip = skip, !.user_id = NoUserId,
                    !.request_body = IF skip THEN EmptyBody
                                     ELSE RequestBody(rq.method, rq.json, rq.raw),
                    !.action = IF skip THEN "none" ELSE determine_action(rq.method, path)]
        /\ UNCHANGED <<audit, mw, authVars, now, who, holders>>

(* security.py 115-125, on the outcome of get_current_user. *)
get_current_active_user(outcome) ==
    IF outcome.status # 200 THEN outcome.status
    ELSE IF outcome.user.status # "active" THEN 403
    ELSE 200

(* line 31 and line 59: the handler runs.  GET /auth/me (router.py         *)
(* 143-146) authenticates the caller through its dependency; the other     *)
(* handlers answer without looking at a token.                             *)
dispatch_call_next ==
    /\ rq.pc = "call_next"
    /\ IF rq.method = "GET" /\ rq.segs = <<"auth", "me">>
       THEN \E header \in ClientHeaders, cookie \in ClientCookies :
               /\ get_current_user(header, cookie)
               /\ rq' = [rq EXCEPT !.status = get_current_active_user(who'),
                                   !.authenticated = who'.user.id,
                                   !.pc = IF rq.skip THEN "done" ELSE "log"]
       ELSE \E status \in {200, 422} :
               /\ rq' = [rq EXCEPT !.status = status,
                                   !.pc = IF rq.skip THEN "done" ELSE "log"]
               /\ UNCHANGED <<authVars, now, who, holders>>
    /\ UNCHANGED <<audit, mw>>

(* lines 66-77 and 126-174 *)
dispatch_log_audit_entry ==
    LET path == PathOf(rq.segs)
        audit_log == [action |-> rq.action, user_id |-> rq.user_id, status_code |-> rq.status,
                      metadata |-> Metadata(rq.method, path, rq.request_body)]
    IN  /\ rq.pc = "log"
        /\ IF path = PathOf(<<"health">>) /\ rq.status = 200
           THEN UNCHANGED audit
           ELSE audit' = Append(audit, audit_log)
        /\ rq' = [rq EXCEPT !.pc = "done"]
        /\ UNCHANGED <<mw, authVars, now, who, holders>>

dispatchRest == <<bucket, upload, call, otp, tx, obj, purpose>>

DispatchNext ==
    \/ create_initial_admin /\ UNCHANGED nonAuthVars
    \/ SessionLogin("admin", ADMIN_PASSWORD) /\ UNCHANGED sessionRest
    \/ dispatch_read /\ UNCHANGED dispatchRest
    \/ dispatch_call_next /\ UNCHANGED dispatchRest
    \/ dispatch_log_audit_entry /\ UNCHANGED dispatchRest

DispatchInit ==
    /\ AuthInit /\ StoreIdle /\ CallIdle /\ AuditIdle /\ ClockIdle
    /\ obj = NoObject
    /\ \E request \in Requests :
          rq = [NoRequest EXCEPT !.pc = "arrived", !.method = request.method,
                                 !.segs = request.segs, !.json = request.json,
                                 !.raw = request.raw]

SpecDispatch == DispatchInit /\ [][DispatchNext]_vars

----------------------------------------------------------------------------
(* app/db.py: get_db, the session scope, and a body that uses the session  *)
(* it yields (as _log_audit_entry does: add, commit, refresh).             *)

MaxTx == 2
MaxWrites == 2

(* lines 78-80: a new session is opened and yielded to the body. *)
get_db_enter ==
    /\ tx.pc \in {"idle", "closed"}
    /\ tx.n < MaxTx
    /\ tx' = [pc |-> "body", n |-> tx.n + 1, pending |-> {}, committed |-> tx.committed,
              wrote |-> {}, raised |-> FALSE, reraised |-> FALSE, closed |-> FALSE,
              commits |-> 0, rollbacks |-> 0]

(* The body: session.add of a new row. *)
session_add(k) ==
    /\ tx.pc = "body"
    /\ <<tx.n, k>> \notin tx.wrote
    /\ tx' = [tx EXCEPT !.pending = @ \cup {<<tx.n, k>>}, !.wrote = @ \cup {<<tx.n, k>>}]

(* The body: its own session.commit() (middleware.py 173, router.py 80). *)
session_commit ==
    /\ tx.pc = "body"
    /\ tx.pending # {}
    /\ tx' = [tx EXCEPT !.committed = @ \cup tx.pending, !.pending = {}]

(* lines 80-86, from the yield on: the body has returned or has raised;    *)
(* the scope's commit succeeds or raises.                                  *)
get_db_exit(body_raised, commit_ok) ==
    /\ tx.pc = "body"
    /\ tx' = IF body_raised
             THEN [tx EXCEPT !.pc = "closed", !.raised = TRUE, !.pending = {},
                             !.rollbacks = @ + 1, !.reraised = TRUE, !.closed = TRUE]
             ELSE IF commit_ok
             THEN [tx EXCEPT !.pc = "closed", !.committed = @ \cup tx.pending,
                             !.pending = {}, !.commits = @ + 1, !.closed = TRUE]
             ELSE [tx EXCEPT !.pc = "closed", !.pending = {}, !.commits = @ + 1,
                             !.rollbacks = @ + 1, !.reraised = TRUE, !.closed = TRUE]

dbRest == <<authVars, storeVars, call, auditVars, now, who, holders, otp, obj, rq, purpose>>

DbNext ==
    \/ get_db_enter /\ UNCHANGED dbRest
    \/ \E k \in 1..MaxWrites : session_add(k) /\ UNCHANGED dbRest
    \/ session_commit /\ UNCHANGED dbRest
    \/ \E body_raised \in BOOLEAN, commit_ok \in BOOLEAN :
          get_db_exit(body_raised, commit_ok) /\ UNCHANGED dbRest

SpecDb == Init /\ [][DbNext]_vars

----------------------------------------------------------------------------
(* app/models/user.py: User.generate_otp and User.verify_otp on one User   *)
(* object. In this part one tick of the clock is 20 seconds.               *)

(* interval=60 (lines 134, 161) and the default expires_in=300 (line 116). *)
OTP_INTERVAL == 3
OTP_DEFAULT_EXPIRES_IN == 15

Secrets == {"BASE32A", "BASE32B"}
ExpiresIn == {1, OTP_DEFAULT_EXPIRES_IN}

(* pyotp.TOTP(secret, digits=6, interval=60): now() is the code of the     *)
(* interval the clock is in, verify(otp) compares with that code.          *)
totp_now(secret) == <<secret, now \div OTP_INTERVAL>>

totp_verify(secret, code) == code = totp_now(secret)

(* lines 116-140; random: what pyotp.random_base32() returns. *)
generate_otp(expires_in, random) ==
    LET secret == IF otp.otp_secret = "None" THEN random ELSE otp.otp_secret
    IN  otp' = [otp_secret |-> secret, otp_expires_at |-> now + expires_in,
                generated |-> totp_now(secret), op |-> "generate_otp",
                code |-> <<>>, at |-> now, result |-> FALSE, replay |-> FALSE]

(* Whether the call before this one was verify_otp accepting this code. *)
Replayed(code) == otp.op = "verify_otp" /\ otp.result /\ otp.code = code

verify_otpConsuming(code) ==
    LET ok == /\ otp.otp_secret # "None"
              /\ otp.otp_expires_at # NoExp
              /\ now <= otp.otp_expires_at
              /\ totp_verify(otp.otp_secret, code)
    IN  otp' = [otp EXCEPT !.op = "verify_otp", !.code = code, !.at = now,
                           !.replay = Replayed(code), !.result = ok,
                           !.otp_expires_at = IF ok THEN NoExp ELSE @]

verify_otpNoExpiry(code) ==
    otp' = [otp EXCEPT !.op = "verify_otp", !.code = code, !.at = now,
                       !.replay = Replayed(code),
                       !.result = IF otp.otp_secret = "None" \/ otp.otp_expires_at = NoExp
                                  THEN FALSE
                                  ELSE totp_verify(otp.otp_secret, code)]

(* lines 142-162 *)
verify_otp(code) ==
    otp' = [otp EXCEPT !.op = "verify_otp", !.code = code, !.at = now,
                       !.replay = Replayed(code),
                       !.result = IF otp.otp_secret = "None" \/ otp.otp_expires_at = NoExp
                                  THEN FALSE
                                  ELSE IF now > otp.otp_expires_at
                                  THEN FALSE
                                  ELSE totp_verify(otp.otp_secret, code)]

(* The codes verify_otp is called with: every secret's code of every       *)
(* interval, and a code that is none of them.                              *)
Codes == {<<sec, w>> : sec \in Secrets, w \in 0..(MaxTime \div OTP_INTERVAL)} \cup {<<"000000", 0>>}

otpRest == <<authVars, storeVars, call, auditVars, who, holders, tx, obj, rq, purpose>>

OtpNext ==
    \/ \E expires_in \in ExpiresIn, random \in Secrets :
          generate_otp(expires_in, random) /\ UNCHANGED <<otpRest, now>>
    \/ \E code \in Codes : verify_otp(code) /\ UNCHANGED <<otpRest, now>>
    \/ Tick /\ UNCHANGED sessionRest

SpecOtp == Init /\ [][OtpNext]_vars

----------------------------------------------------------------------------
(* app/models/user.py: the pure methods of one User object *)

(* has_permission, lines 173-178. *)
role_hierarchy(role) ==
    CASE role = "viewer" -> 0
      [] role = "uploader" -> 1
      [] role = "editor" -> 2
      [] role = "admin" -> 3

has_permissionStrict(role, required_role) ==
    role_hierarchy(role) > role_hierarchy(required_role)

(* has_permission, line 179, for self.role = role. *)
has_permission(role, required_role) ==
    role_hierarchy(role) >= role_hierarchy(required_role)

(* One call of user.has_permission(required_role). *)
CallHasPermission(required_role) ==
    obj' = [obj EXCEPT !.op = "has_permission", !.required_role = required_role,
                       !.permitted = has_permission(obj.role, required_role)]

(* Python's truth value of an Optional[str]: None and "" are false. *)
Truthy(s) == s.some /\ s.v # <<>>

(* full_name, lines 167-169: an f-string of the two names, else username. *)
full_name(self) ==
    IF Truthy(self.first_name) /\ Truthy(self.last_name)
    THEN Some(self.first_name.v \o <<" ">> \o self.last_name.v)
    ELSE self.username

(* One read of user.full_name. *)
ReadFullName == obj' = [obj EXCEPT !.op = "full_name", !.name = full_name(obj)]

(* The objects the methods are called on: every role, names that are None, *)
(* empty or set, as the constructor User(...) takes them.                  *)
FirstNames == {None, Some(<<>>), Some(<<"J", "o">>)}
LastNames == {None, Some(<<>>), Some(<<"D", "o", "e">>)}
Usernames == {None, Some(<<"j", "d">>)}

ObjectInit ==
    /\ AuthInit /\ StoreIdle /\ CallIdle /\ AuditIdle /\ ClockIdle
    /\ rq = NoRequest
    /\ \E r \in UserRole, u \in Usernames, f \in FirstNames, l \in LastNames :
          obj = [NoObject EXCEPT !.role = r, !.username = u, !.first_name = f, !.last_name = l]

objRest == <<authVars, storeVars, call, auditVars, now, who, holders, otp, tx, rq, purpose>>

ObjectNext ==
    \/ \E required \in UserRole : CallHasPermission(required) /\ UNCHANGED objRest
    \/ ReadFullName /\ UNCHANGED objRest

SpecObject == ObjectInit /\ [][ObjectNext]_vars

----------------------------------------------------------------------------
(* C1: when register is called with a username or an email that a row      *)
(* already has, the answer is the 400 conflict response and the users      *)
(* table is left as it was.                                                *)
C1_RegisterConflict ==
    [][(/\ resp'.op = "register"
        /\ \E r \in users : r.username = resp'.username \/ r.email = resp'.email)
       => (/\ resp'.status = 400
           /\ resp'.detail = "Username or email already registered"
           /\ users' = users)]_vars

(* A register answered 400 because another user's row holds the email. *)
C1_Witness ==
    /\ resp.op = "register"
    /\ resp.status = 400
    /\ \E r \in users : r.email = resp.email /\ r.username # resp.username

C3_RegisterLoginVerifyLogin ==
    \A reg \in registered :
        (resp.op = "login" /\ resp.username = reg[1] /\ resp.password = reg[2]) =>
            IF reg[1] \in verified
            THEN resp.status = 200 /\ resp.token.sub = reg[1]
            ELSE resp.status = 403

(* C5: delete_model refuses to delete the only admin and deletes nothing;  *)
(* it deletes every other target; so one call never removes the last      *)
(* admin.                                                                  *)
C5_DeleteModel ==
    [][resp'.op = "delete_model" =>
          /\ \A t \in users : t.id = resp'.pk =>
                IF t.role = "admin" /\ ~\E o \in users : o.role = "admin" /\ o.id # t.id
                THEN users' = users /\ resp'.detail # "deleted"
                ELSE users' = users \ {t} /\ resp'.detail = "deleted"
          /\ (\E r \in users : r.role = "admin") => (\E r \in users' : r.role = "admin")
      ]_vars

(* The only admin was the target of delete_model, and is still there. *)
C5_Witness ==
    /\ resp.op = "delete_model"
    /\ resp.detail = "Cannot delete the last admin user"
    /\ \E r \in users : r.id = resp.pk /\ r.role = "admin"
    /\ \E r \in users : r.role # "admin"

(* C4: no two rows of the users table share a username or an email,        *)
(* whatever the interleaving of the operations that insert or rename       *)
(* users, and an operation that loses a race adds no row.                  *)
C4_UniqueUsers ==
    /\ [](\A r1, r2 \in users :
             r1 # r2 => (r1.username # r2.username /\ r1.email # r2.email))
    /\ [][resp'.detail = "IntegrityError" => users' = users]_vars

(* Two starting workers both counted zero users; the second insert of the  *)
(* admin row was refused and the first one's row is there.                 *)
C4_Witness ==
    /\ resp.op = "create_initial_admin"
    /\ resp.detail = "IntegrityError"
    /\ \E r \in users : r.username = "admin"
    /\ Cardinality(users) = 1

(* C6: the checksum upload_file returns, and writes into the object's      *)
(* metadata, is the SHA-256 of the bytes stored under the returned key,    *)
(* which are the whole content of the file.                                *)
C6_ChecksumOfStoredBytes ==
    upload.status = 200 =>
        \E o \in bucket :
            /\ o.key = upload.key
            /\ o.body = upload.file.data
            /\ upload.checksum_sha256 = <<"sha256", o.body>>
            /\ o.checksum = upload.checksum_sha256

(* C9: _determine_action returns one AuditAction for every method and      *)
(* every path, the unknown methods, the empty path, "/" and the paths with *)
(* empty segments included; it ends in no error.                           *)
C9_Total ==
    call.action \notin {"idle", "pending"} => call.action \in AuditAction

(* A method outside the table on the path "//". *)
C9_Witness ==
    /\ call.method = "OPTIONS"
    /\ call.segs = <<"", "">>
    /\ call.action = "READ"

(* The reference table of C10, on the segments of the path. *)
RefGeneric ==
    [m \in Methods |->
        IF m = "GET" THEN "READ"
        ELSE IF m = "POST" THEN "CREATE"
        ELSE IF m \in {"PUT", "PATCH"} THEN "UPDATE"
        ELSE IF m = "DELETE" THEN "DELETE"
        ELSE "READ"]

RefAuthExact ==
    [segs \in {<<"auth", "login">>, <<"auth", "logout">>, <<"auth", "register">>,
               <<"auth", "password", "change">>, <<"auth", "password", "reset">>} |->
        IF segs = <<"auth", "login">> THEN "USER_LOGIN"
        ELSE IF segs = <<"auth", "logout">> THEN "USER_LOGOUT"
        ELSE IF segs = <<"auth", "register">> THEN "USER_CREATE"
        ELSE IF segs = <<"auth", "password", "change">> THEN "USER_PASSWORD_CHANGE"
        ELSE "USER_PASSWORD_RESET"]

(* The segments between the first and the last one that is not empty. *)
RefStripped(segs) ==
    LET full == {i \in 1..Len(segs) : segs[i] # ""}
    IN  IF full = {} THEN <<>>
        ELSE SubSeq(segs, CHOOSE i \in full : \A j \in full : i <= j,
                          CHOOSE i \in full : \A j \in full : i >= j)

RefCrud(resource, method, isItem) ==
    IF method = "POST" THEN (IF resource = "users" THEN "USER_CREATE" ELSE "ASSET_UPLOAD")
    ELSE IF method \in {"PUT", "PATCH"}
    THEN (IF resource = "users" THEN "USER_UPDATE" ELSE "ASSET_UPDATE")
    ELSE IF method = "DELETE"
    THEN (IF resource = "users" THEN "USER_DELETE" ELSE "ASSET_DELETE")
    ELSE IF method = "GET" /\ resource = "assets" /\ isItem THEN "ASSET_DOWNLOAD"
    ELSE "none"

RefBelowAuth(method, segs) ==
    LET parts == RefStripped(segs)
        crud == IF parts # <<>> /\ parts[1] \in {"users", "assets"}
                THEN RefCrud(parts[1], method, Len(parts) > 1 /\ parts[2] = "42")
                ELSE "none"
    IN  IF crud # "none" THEN crud ELSE RefGeneric[method]

(* Level 1 as an exact match of the five auth paths. *)
RefExact(method, segs) ==
    IF method = "POST" /\ segs \in DOMAIN RefAuthExact
    THEN RefAuthExact[segs]
    ELSE RefBelowAuth(method, segs)

(* Level 1 with the two password paths matched as prefixes. *)
RefPrefix(method, segs) ==
    IF method = "POST" /\ segs \in DOMAIN RefAuthExact
    THEN RefAuthExact[segs]
    ELSE IF method = "POST" /\ Len(segs) > 3
            /\ SubSeq(segs, 1, 3) \in {<<"auth", "password", "change">>,
                                       <<"auth", "password", "reset">>}
    THEN RefAuthExact[SubSeq(segs, 1, 3)]
    ELSE RefBelowAuth(method, segs)

(* C10 as stated: the result is the reference table's, with the known auth *)
(* paths matched exactly, then the users/assets actions, then the generic  *)
(* table.                                                                  *)
C10_ThreeLevelsExact ==
    call.action \notin {"idle", "pending"} =>
        call.action = RefExact(call.method, call.segs)

(* C10 amended: the same three levels, where a path that starts with       *)
(* /auth/password/change or /auth/password/reset counts as that auth path. *)
C10_ThreeLevels ==
    call.action \notin {"idle", "pending"} =>
        call.action = RefPrefix(call.method, call.segs)

(* POST /auth/password/change/x is classified as a password change. *)
C10_Witness ==
    /\ call.method = "POST"
    /\ call.segs = <<"auth", "password", "change", "x">>
    /\ call.action = "USER_PASSWORD_CHANGE"

(* C7: when dispatch is through with a request whose path is not on the    *)
(* skip list, it has inserted exactly one AuditLog row, with the status    *)
(* code of the response, and it inserts no row before the handler is       *)
(* through; also when the handler fails.                                   *)
C7_OneRowPerRequest ==
    ~mw.skip =>
        /\ mw.pc \in {"call_next", "log"} => Len(audit) = mw.before
        /\ mw.pc = "done" =>
              /\ Len(audit) = mw.before + 1
              /\ audit[Len(audit)].status_code = mw.status

(* C8: a row of the audit log, once inserted, is never changed and never   *)
(* removed: every step leaves the rows there are as they are, in place.    *)
C8_AppendOnly ==
    [][/\ Len(audit') >= Len(audit)
       /\ SubSeq(audit', 1, Len(audit)) = audit]_vars

(* A delete of an existing row in the admin panel was refused. *)
C8_Witness ==
    /\ Len(audit) >= 1
    /\ resp.op = "auditlog_delete"
    /\ resp.status = 403

(* C13: every forgot_password call is answered with the same status and    *)
(* the same message, whether or not a user has the email, and leaves the   *)
(* users table as it is.                                                   *)
C13_ForgotPasswordUniform ==
    [][resp'.op = "forgot_password" =>
          /\ resp'.status = 200
          /\ resp'.detail = "If your email is registered, you will receive a password reset link"
          /\ users' = users]_vars

(* forgot_password has answered for an email that a user has. *)
C13_Witness ==
    /\ resp.op = "forgot_password"
    /\ \E r \in users : r.email = resp.email

(* C14: a login with an unknown name and a login with a wrong password get *)
(* the same 401, whatever the account's status; 403 is answered only to    *)
(* the right password of an account that is not active.                    *)
C14_LoginRefusals ==
    [][resp'.op = "login" =>
          LET found == {r \in users : r.username = resp'.username \/ r.email = resp'.username}
              right == \E r \in found : r.password_hash = <<"bcrypt", resp'.password>>
          IN  /\ ~right => /\ resp'.status = 401
                           /\ resp'.detail = "Incorrect username or password"
                           /\ resp'.token = NoToken
              /\ resp'.status = 403 => right /\ \E r \in found : r.status # "active"]_vars

(* A wrong password for an account that is not active was answered 401. *)
C14_Witness ==
    /\ resp.op = "login"
    /\ resp.status = 401
    /\ \E r \in users : /\ r.username = resp.username
                        /\ r.status # "active"
                        /\ r.password_hash # <<"bcrypt", resp.password>>

(* C15: an upload is rejected exactly when the file has more bytes than    *)
(* the configured upload limit, and an accepted upload reports the file's  *)
(* number of bytes as its size.                                            *)
C15_SizeCeiling ==
    upload.status # 0 =>
        /\ upload.status = 413 <=> Len(upload.file.data) > upload_limit_bytes
        /\ upload.status = 200 => upload.size = Len(upload.file.data)

(* C16: an upload makes at most one store attempt; when the store reports  *)
(* an error the call ends with 500 'Failed to upload file' after that one  *)
(* attempt and returns no key and no checksum.                             *)
C16_NoRetry ==
    upload.status # 0 =>
        /\ upload.attempts <= 1
        /\ upload.store_error =>
              /\ upload.status = 500
              /\ upload.attempts = 1
              /\ upload.detail = "Failed to upload file"
              /\ upload.key = NoKey
              /\ upload.checksum_sha256 = <<>>

(* The store refused an object and the bucket holds none. *)
C16_Witness ==
    /\ upload.status = 500
    /\ upload.store_error
    /\ upload.attempts = 1
    /\ bucket = {}

(* C17: the key of an upload that stores an object is the key of no object *)
(* stored before it, so no upload overwrites an earlier one.               *)
C17_UniqueKeys ==
    [][(upload' # upload /\ upload'.status = 200) =>
          \A o \in bucket : o.key # upload'.key]_vars

(* C11: get_current_user uses the token of the first source that is there, *)
(* the bearer Authorization header before the access_token cookie (with    *)
(* 'Bearer ' taken off); it answers 200 with the token's user when that    *)
(* token is valid and 401 otherwise, whatever a later source holds.        *)
C11_HeaderToken(header) ==
    IF header.scheme \in {"Bearer", "bearer"} /\ header.param # NoToken
    THEN header.param ELSE NoToken

C11_FirstPresent(header, cookie) ==
    IF C11_HeaderToken(header) # NoToken THEN C11_HeaderToken(header) ELSE cookie.value

C11_Valid(token) ==
    /\ token \in issued
    /\ now <= token.exp
    /\ \E r \in users : r.username = token.sub

C11_FirstPresentSource ==
    [][who' # who =>
          LET chosen == C11_FirstPresent(who'.header, who'.cookie)
          IN  /\ who'.token = chosen
              /\ who'.status = IF C11_Valid(chosen) THEN 200 ELSE 401
              /\ who'.status = 200 => who'.user.username = chosen.sub]_vars

(* A header with a token that does not decode was refused although the     *)
(* cookie held a valid token.                                              *)
C11_Witness ==
    /\ who.status = 401
    /\ who.header = [scheme |-> "Bearer", param |-> GarbageToken]
    /\ who.cookie.prefix
    /\ who.at = now
    /\ C11_Valid(who.cookie.value)

(* C12 as stated: a token of a login is accepted at every moment before    *)
(* its expiry as long as the row it was issued for exists, and rejected    *)
(* at every moment after its expiry.                                       *)
C12_NoRevocationByRow ==
    [][who' # who =>
          \A h \in holders :
              who'.token = h[1] =>
                  /\ (now < h[1].exp /\ \E r \in users : r.id = h[2]) => who'.status = 200
                  /\ now > h[1].exp => who'.status = 401]_vars

(* C12 amended: a token of a login is accepted at every moment before its  *)
(* expiry as long as a row with the token's username exists, whatever ran  *)
(* in between, and rejected at every moment after its expiry.              *)
C12_NoRevocation ==
    [][who' # who =>
          \A h \in holders :
              who'.token = h[1] =>
                  /\ (now < h[1].exp /\ \E r \in users : r.username = h[1].sub)
                        => who'.status = 200 /\ who'.user.username = h[1].sub
                  /\ now > h[1].exp => who'.status = 401]_vars

(* A login's token was accepted a tick after the login, for a user who has *)
(* since been suspended and whose password has been reset.                 *)
C12_Witness ==
    /\ who.status = 200
    /\ \E h \in holders : who.token = h[1] /\ who.at > h[1].exp - ACCESS_TOKEN_EXPIRE
    /\ who.user.status = "suspended"
    /\ who.user.password_hash = get_password_hash("wrong")
    /\ resp.op = "logout"

(* C18: when a use of the get_db scope is over, the scope has committed    *)
(* if and only if the body did not raise, it has rolled back and re-raised *)
(* if the body raised, the session is closed either way, and nothing the   *)
(* body wrote is visible if the body raised.                               *)
C18_SessionScope ==
    tx.pc = "closed" =>
        /\ tx.commits = IF tx.raised THEN 0 ELSE 1
        /\ tx.raised => tx.rollbacks = 1 /\ tx.reraised
        /\ tx.closed
        /\ tx.raised => tx.wrote \cap tx.committed = {}

(* C19: verify_otp called after otp_expires_at answers false whatever the  *)
(* code, and it answers false when no secret or no expiry is set.          *)
C19_ExpiredOtpRefused ==
    otp.op = "verify_otp" =>
        ((\/ otp.otp_secret = "None"
          \/ otp.otp_expires_at = NoExp
          \/ otp.at > otp.otp_expires_at) => ~otp.result)

(* The code generate_otp returned, still the code of the running interval, *)
(* was refused after otp_expires_at.                                       *)
C19_Witness ==
    /\ otp.op = "verify_otp"
    /\ otp.code = otp.generated
    /\ otp.code = <<otp.otp_secret, otp.at \div OTP_INTERVAL>>
    /\ otp.at > otp.otp_expires_at
    /\ ~otp.result

(* C20: the code generate_otp returned is accepted by every verify_otp     *)
(* call up to otp_expires_at.                                              *)
C20_OtpValidUntilExpiry ==
    (/\ otp.op = "verify_otp"
     /\ otp.generated # <<>>
     /\ otp.code = otp.generated
     /\ otp.at <= otp.otp_expires_at) => otp.result

(* C21: has_permission(required) is true exactly when the user's role is   *)
(* at or above required in the order viewer < uploader < editor < admin;   *)
(* a role at or above one that satisfies a requirement satisfies it, and a *)
(* role that satisfies a requirement satisfies every lower requirement.    *)
C21_HasPermission ==
    LET order == <<"viewer", "uploader", "editor", "admin">>
        at(r) == CHOOSE i \in 1..4 : order[i] = r
    IN  /\ obj.op = "has_permission" =>
               (obj.permitted <=> at(obj.role) >= at(obj.required_role))
        /\ \A r \in UserRole, h \in UserRole, q \in UserRole :
               (has_permission(r, q) /\ at(h) >= at(r)) => has_permission(h, q)
        /\ \A r \in UserRole, q \in UserRole, l \in UserRole :
               (has_permission(r, q) /\ at(l) <= at(q)) => has_permission(r, l)

(* An editor was asked for the uploader's permission and has it. *)
C21_Witness ==
    /\ obj.op = "has_permission"
    /\ obj.role = "editor"
    /\ obj.required_role = "uploader"
    /\ obj.permitted

(* C22: full_name is 'first last' when both names are set, the one name    *)
(* that is set when exactly one of first_name and last_name is None, and   *)
(* None when both are None.                                                *)
C22_FullName ==
    obj.op = "full_name" =>
        LET first == obj.first_name
            last == obj.last_name
        IN  /\ (first.some /\ last.some) => obj.name = Some(first.v \o <<" ">> \o last.v)
            /\ (first.some /\ ~last.some) => obj.name = first
            /\ (~first.some /\ last.some) => obj.name = last
            /\ (~first.some /\ ~last.some) => obj.name = None

(* C23: once an admin exists, an admin exists after every step of the      *)
(* admin panel, the deletes of two requests interleaved and the edits of a *)
(* role included.                                                          *)
C23_AdminRemains ==
    [][(\E r \in users : r.role = "admin") => (\E r \in users' : r.role = "admin")]_vars

(* C24: the auth endpoints are classified with their own action, POST      *)
(* /auth/token as USER_LOGIN, POST /auth/logout as USER_LOGOUT, POST       *)
(* /auth/register as USER_CREATE and POST /auth/reset-password as          *)
(* USER_PASSWORD_RESET, and a writing request to a user or an asset under  *)
(* /api/v1 gets the user or asset action of its method.                    *)
C24_ServedActions ==
    call.action \notin {"idle", "pending"} =>
        /\ call.method = "POST" =>
              /\ call.segs = <<"auth", "token">> => call.action = "USER_LOGIN"
              /\ call.segs = <<"auth", "logout">> => call.action = "USER_LOGOUT"
              /\ call.segs = <<"auth", "register">> => call.action = "USER_CREATE"
              /\ call.segs = <<"auth", "reset-password">> => call.action = "USER_PASSWORD_RESET"
        /\ (Len(call.segs) > 2 /\ SubSeq(call.segs, 1, 2) = <<"api", "v1">>) =>
              LET resource == call.segs[3]
              IN  /\ call.method = "POST" =>
                        call.action = IF resource = "users" THEN "USER_CREATE" ELSE "ASSET_UPLOAD"
                  /\ call.method \in {"PUT", "PATCH"} =>
                        call.action = IF resource = "users" THEN "USER_UPDATE" ELSE "ASSET_UPDATE"
                  /\ call.method = "DELETE" =>
                        call.action = IF resource = "users" THEN "USER_DELETE" ELSE "ASSET_DELETE"

(* Whether a JSON value holds, at any depth, a field with a sensitive name *)
(* whose value is not the redaction mark.                                  *)
RECURSIVE RefHoldsPlaintext(_)
RefHoldsPlaintext(value) ==
    /\ value.kind = "obj"
    /\ \E k \in DOMAIN value.fields :
          \/ k \in SensitiveFields /\ value.fields[k] # JStr(REDACTED)
          \/ RefHoldsPlaintext(value.fields[k])

(* C25: no AuditLog row holds the plaintext value of a password,           *)
(* new_password, current_password or token field of a request's JSON body, *)
(* at any nesting depth: the field is redacted or the body is left out.    *)
C25_NoPlaintextSecret ==
    \A i \in 1..Len(audit) :
        audit[i].metadata.has_request_body =>
            ~RefHoldsPlaintext(audit[i].metadata.request_body)

(* C26: the audit row of a request whose handler authenticated a user      *)
(* records that user's id.                                                 *)
C26_RowRecordsAuthenticatedUser ==
    (rq.pc = "done" /\ rq.authenticated # NoUserId /\ audit # <<>>) =>
        audit[Len(audit)].user_id = rq.authenticated

(* C27: reset_password and verify_email accept every token that decodes    *)
(* and carries a subject, whatever operation issued it, and reset_password *)
(* then sets the password of the subject's row; get_current_user accepts a *)
(* token issued by forgot_password as long as it has not expired and a row *)
(* bears its subject.                                                      *)
C27_TokensNotBound ==
    [][/\ (resp' # resp /\ resp'.op = "reset_password") =>
              LET t == resp'.token
              IN  (jwt_decodes(t) /\ t.sub # "None") =>
                      /\ resp'.status # 400
                      /\ \A r \in users :
                            r.username = t.sub =>
                                \E r2 \in users' :
                                    /\ r2.id = r.id
                                    /\ r2.password_hash = get_password_hash(resp'.new_password)
       /\ (resp' # resp /\ resp'.op = "verify_email") =>
              LET t == resp'.token
              IN  (jwt_decodes(t) /\ t.sub # "None") => resp'.status # 400
       /\ who' # who =>
              \A p \in purpose :
                  (/\ p[2] = "forgot_password"
                   /\ who'.token = p[1]
                   /\ now <= p[1].exp
                   /\ \E r \in users : r.username = p[1].sub) => who'.status = 200
      ]_vars

(* A token of a login has set the password, and a token that only          *)
(* forgot_password issued has been accepted by get_current_user.           *)
C27_Witness ==
    /\ resp.op = "reset_password"
    /\ resp.status = 200
    /\ <<resp.token, "login">> \in purpose
    /\ <<resp.token, "forgot_password">> \notin purpose
    /\ \E r \in users : r.username = resp.token.sub /\ r.password_hash = get_password_hash("wrong")
    /\ who.status = 200
    /\ <<who.token, "forgot_password">> \in purpose
    /\ <<who.token, "login">> \notin purpose

(* C28: verify_email with a token that decodes and names a row sets status *)
(* to active and email_verified to true together when the row's status is  *)
(* not active, whatever it is, and changes nothing and answers 'Email      *)
(* already verified' when it is active; a second call with the same token, *)
(* still valid, right after a call that succeeded changes nothing.         *)
C28_VerifyEmail ==
    [][(resp' # resp /\ resp'.op = "verify_email") =>
          LET t == resp'.token
          IN  (jwt_decodes(t) /\ t.sub # "None") =>
                  /\ \A r \in users :
                        r.username = t.sub =>
                            IF r.status # "active"
                            THEN /\ users' = (users \ {r}) \cup
                                        {[r EXCEPT !.status = "active", !.email_verified = TRUE]}
                                 /\ resp'.detail = "Email verified successfully"
                            ELSE /\ users' = users
                                 /\ resp'.detail = "Email already verified"
                  /\ (resp.op = "verify_email" /\ resp.status = 200 /\ resp.token = t) =>
                        /\ users' = users
                        /\ resp'.detail = "Email already verified"
      ]_vars

(* An account that the admin form had taken out of the active status is    *)
(* active again after verify_email with the token of an earlier login.     *)
C28_Witness ==
    /\ resp.op = "verify_email"
    /\ resp.detail = "Email verified successfully"
    /\ <<resp.token, "login">> \in purpose
    /\ \E r \in users :
          /\ r.username = resp.token.sub
          /\ r.status = "active"
          /\ r.email_verified
          /\ r.username \in verified

C30_AllOrNothing ==
    [][(upload' # upload /\ upload'.status \notin {0, 200}) => bucket' = bucket]_vars

====
